---- MODULE Spec2Model ----
(***************************************************************************)
(* Task-Alarm: the next-trigger computation (utils/timeCalculations) and   *)
(* the alarm lifecycle (AlarmContext + SchedulerService + App listeners)   *)
(* against the Notifier (expo-notifications) and the Store (AsyncStorage). *)
(*                                                                         *)
(* Instants are whole seconds of local wall-clock time counted from        *)
(* Sunday 00:00:00 of week 0 (Date#getDay() = 0 on Sunday).  The local     *)
(* zone has a fixed offset: every day has 86400 seconds.                   *)
(***************************************************************************)
EXTENDS Integers, FiniteSets, Sequences, TLC

VARIABLES
    now,        \* the wall clock read by new Date() / Date.now()
    alarms,     \* AlarmContext state `alarms`: alarm id -> Alarm record
    store,      \* AsyncStorage collection written by StorageService
    scheduled,  \* Notifier: registrations scheduled and not yet delivered or cancelled
    presented,  \* notifications shown in the tray, awaiting snooze / dismiss
    nextToken,  \* next notification identifier the Notifier hands out
    nextAlarm,  \* next alarm id addAlarm generates
    last,       \* the operation completed last and what it touched
    calc        \* the call under study: its inputs, its position, its result

vars == <<now, alarms, store, scheduled, presented, nextToken, nextAlarm, last, calc>>

(***************************************************************************)
(* Bounds                                                                  *)
(***************************************************************************)
MaxAlarms == 1     \* alarms ever created in one run
MaxTokens == 2     \* registrations ever made at the Notifier in one run
MaxDay    == 6     \* the computation is evaluated on days 0..MaxDay

(***************************************************************************)
(* Calendar                                                                *)
(***************************************************************************)
SecondsPerHour == 60 * 60
SecondsPerDay  == 24 * SecondsPerHour

WEEK_DAYS == {"Mon", "Tue", "Wed", "Thu", "Fri", "Sat", "Sun"}

WEEKDAY_TO_NUMBER ==
    [d \in WEEK_DAYS |->
        CASE d = "Sun" -> 0 [] d = "Mon" -> 1 [] d = "Tue" -> 2 [] d = "Wed" -> 3
          [] d = "Thu" -> 4 [] d = "Fri" -> 5 [] d = "Sat" -> 6]

NUMBER_TO_WEEKDAY ==
    [n \in 0..6 |->
        CASE n = 0 -> "Sun" [] n = 1 -> "Mon" [] n = 2 -> "Tue" [] n = 3 -> "Wed"
          [] n = 4 -> "Thu" [] n = 5 -> "Fri" [] n = 6 -> "Sat"]

\* Date#getDay(), Date#getHours(), Date#getMinutes(), Date#getSeconds()
getDay(t)     == (t \div SecondsPerDay) % 7
getHours(t)   == (t % SecondsPerDay) \div SecondsPerHour
getMinutes(t) == (t % SecondsPerHour) \div 60
getSeconds(t) == t % 60

\* d = new Date(t); d.setHours(h, m, 0, 0)
setHours(t, h, m) == (t \div SecondsPerDay) * SecondsPerDay + h * SecondsPerHour + m * 60

\* d.setDate(d.getDate() + n)
addDays(t, n) == t + n * SecondsPerDay

(***************************************************************************)
(* utils/timeCalculations                                                  *)
(***************************************************************************)
Invalid == [hours |-> -1, minutes |-> -1]

\* time is the pair the string "HH:mm" splits into
parseTimeString(time) ==
    IF time.hours < 0 \/ time.hours > 23 \/ time.minutes < 0 \/ time.minutes > 59
    THEN Invalid
    ELSE [hours |-> time.hours, minutes |-> time.minutes]

getNextWeekdayOccurrence(day, time, t) ==
    LET hm         == parseTimeString(time)
        daysUntil0 == WEEKDAY_TO_NUMBER[day] - getDay(t)
        alarmTime  == setHours(t, hm.hours, hm.minutes)
    IN  IF daysUntil0 = 0 /\ alarmTime > t
        THEN alarmTime
        ELSE LET daysUntil == IF daysUntil0 = 0 THEN 7
                              ELSE IF daysUntil0 < 0 THEN daysUntil0 + 7
                              ELSE daysUntil0
             IN  setHours(addDays(t, daysUntil), hm.hours, hm.minutes)

Null == -1

RECURSIVE nextOccurrenceLoop_Latest(_, _, _, _)
nextOccurrenceLoop_Latest(days, time, t, nextOccurrence) ==
    IF days = {} THEN nextOccurrence
    ELSE LET day        == CHOOSE d \in days : TRUE
             occurrence == getNextWeekdayOccurrence(day, time, t)
         IN  nextOccurrenceLoop_Latest(days \ {day}, time, t,
                 IF nextOccurrence = Null \/ occurrence > nextOccurrence
                 THEN occurrence ELSE nextOccurrence)

\* the loop `for (const day of repeats)` with its running minimum
RECURSIVE nextOccurrenceLoop(_, _, _, _)
nextOccurrenceLoop(days, time, t, nextOccurrence) ==
    IF days = {} THEN nextOccurrence
    ELSE LET day        == CHOOSE d \in days : TRUE
             occurrence == getNextWeekdayOccurrence(day, time, t)
         IN  nextOccurrenceLoop(days \ {day}, time, t,
                 IF nextOccurrence = Null \/ occurrence < nextOccurrence
                 THEN occurrence ELSE nextOccurrence)

getNextAlarmTime_NotStrict(time, repeats, t) ==
    LET hm        == parseTimeString(time)
        alarmTime == setHours(t, hm.hours, hm.minutes)
    IN  IF repeats = {}
        THEN IF alarmTime >= t THEN alarmTime ELSE addDays(alarmTime, 1)
        ELSE IF NUMBER_TO_WEEKDAY[getDay(t)] \in repeats /\ alarmTime >= t
             THEN alarmTime
             ELSE nextOccurrenceLoop(repeats, time, t, Null)

getNextAlarmTime_AnyDay(time, repeats, t) ==
    LET hm        == parseTimeString(time)
        alarmTime == setHours(t, hm.hours, hm.minutes)
    IN  IF alarmTime > t THEN alarmTime
        ELSE IF repeats = {} THEN addDays(alarmTime, 1)
        ELSE nextOccurrenceLoop(repeats, time, t, Null)

\* repeats is the set of the entries of the array alarm.repeats
getNextAlarmTime(time, repeats, t) ==
    LET hm        == parseTimeString(time)
        alarmTime == setHours(t, hm.hours, hm.minutes)
    IN  IF repeats = {}
        THEN IF alarmTime > t THEN alarmTime ELSE addDays(alarmTime, 1)
        ELSE IF NUMBER_TO_WEEKDAY[getDay(t)] \in repeats /\ alarmTime > t
             THEN alarmTime
             ELSE nextOccurrenceLoop(repeats, time, t, Null)

(***************************************************************************)
(* Alarm records and the Notifier                                          *)
(***************************************************************************)
NoId == 0      \* notificationId: undefined

TOLERANCE_SECONDS == 30

\* Notifications.scheduleNotificationAsync: one registration, identified by token
scheduleNotification(sched, token, data, triggerDate) ==
    sched \cup {[identifier  |-> token,
                 alarmId     |-> data.alarmId,
                 isSnoozed   |-> data.isSnoozed,
                 triggerDate |-> triggerDate]}

cancelNotification_Others(sched, id) == {r \in sched : r.identifier = id}

\* a Notifier for which an identifier it does not know cancels everything
cancelNotification_UnknownClearsAll(sched, id) ==
    IF \E r \in sched : r.identifier = id
    THEN {r \in sched : r.identifier # id}
    ELSE {}

\* Notifications.cancelScheduledNotificationAsync: unknown identifiers are ignored
cancelNotification(sched, id) == {r \in sched : r.identifier # id}

(***************************************************************************)
(* SchedulerService                                                        *)
(***************************************************************************)
calculateNextTrigger(alarm, t) == getNextAlarmTime(alarm.time, alarm.repeats, t)

scheduleAlarm(sched, token, id, alarm, t) ==
    scheduleNotification(sched, token, [alarmId |-> id, isSnoozed |-> FALSE],
                         calculateNextTrigger(alarm, t))

cancelAlarm(sched, notificationId) ==
    IF notificationId = NoId THEN sched ELSE cancelNotification(sched, notificationId)

scheduleSnooze_Seconds(sched, token, id, snoozeDurationMinutes, t) ==
    scheduleNotification(sched, token, [alarmId |-> id, isSnoozed |-> TRUE],
                         t + snoozeDurationMinutes)

\* a snooze registered without the isSnoozed mark
scheduleSnooze_NotMarked(sched, token, id, snoozeDurationMinutes, t) ==
    scheduleNotification(sched, token, [alarmId |-> id, isSnoozed |-> FALSE],
                         t + snoozeDurationMinutes * 60)

scheduleSnooze(sched, token, id, snoozeDurationMinutes, t) ==
    scheduleNotification(sched, token, [alarmId |-> id, isSnoozed |-> TRUE],
                         t + snoozeDurationMinutes * 60)

\* TRUE when rescheduleRepeatingAlarm schedules, FALSE when it returns null
reschedulesRepeating(alarm) == alarm.repeats # {} /\ alarm.isEnabled

(***************************************************************************)
(* StorageService: read the collection, change it, write it back           *)
(***************************************************************************)
StorageAddAlarm(st, id, alarm) ==
    [i \in DOMAIN st \cup {id} |-> IF i = id THEN alarm ELSE st[i]]

\* a Store update that keeps the token the stored record already had
StorageUpdateAlarm_KeepsToken(st, id, alarm) ==
    [st EXCEPT ![id] = [alarm EXCEPT !.notificationId = st[id].notificationId]]

StorageUpdateAlarm(st, id, alarm) ==
    [i \in DOMAIN st |-> IF i = id THEN alarm ELSE st[i]]

StorageDeleteAlarm(st, id) == [i \in DOMAIN st \ {id} |-> st[i]]

(***************************************************************************)
(* AlarmContext                                                            *)
(***************************************************************************)
\* { ...existingAlarm, ...updates }
Spread(existing, updates) ==
    [f \in DOMAIN existing |-> IF f \in DOMAIN updates THEN updates[f] ELSE existing[f]]

\* the scheduling fields without isEnabled
needsReschedule_NoEnabled(updates) ==
    DOMAIN updates \cap {"time", "repeats", "soundUri"} # {}

\* an update that reschedules whatever fields it names
needsReschedule_Always(updates) == DOMAIN updates \cup {"time"} # {}

needsReschedule(updates) ==
    DOMAIN updates \cap {"time", "repeats", "isEnabled", "soundUri"} # {}

\* What the last completed operation was and touched: the alarm, the token the
\* record held before (old), the token registered (new), for a snooze or a
\* dismiss the trigger date of the notification answered (target) and for a
\* snooze the instant it ran (at); prev is the token registered by the edit of
\* the same alarm that came immediately before an edit.
LastOp(op, id, old, new, target, at) ==
    [op |-> op, id |-> id, old |-> old, new |-> new, target |-> target, at |-> at,
     prev |-> IF op = "edit" /\ last.op = "edit" /\ last.id = id
              THEN last.new ELSE NoId]

addAlarm(alarmInput) ==
    LET id       == nextAlarm
        token    == nextToken
        newAlarm == [time           |-> alarmInput.time,
                     repeats        |-> alarmInput.repeats,
                     isEnabled      |-> alarmInput.isEnabled,
                     snoozeEnabled  |-> alarmInput.snoozeEnabled,
                     snoozeDuration |-> alarmInput.snoozeDuration,
                     notificationId |-> IF alarmInput.isEnabled THEN token ELSE NoId]
    IN  /\ nextAlarm <= MaxAlarms
        /\ alarmInput.isEnabled => nextToken <= MaxTokens
        /\ scheduled' = IF alarmInput.isEnabled
                        THEN scheduleAlarm(scheduled, token, id, newAlarm, now)
                        ELSE scheduled
        /\ nextToken' = IF alarmInput.isEnabled THEN nextToken + 1 ELSE nextToken
        /\ store'     = StorageAddAlarm(store, id, newAlarm)
        /\ alarms'    = [i \in DOMAIN alarms \cup {id} |->
                            IF i = id THEN newAlarm ELSE alarms[i]]
        /\ nextAlarm' = nextAlarm + 1
        /\ last'      = LastOp("create", id, NoId,
                               IF alarmInput.isEnabled THEN token ELSE NoId, 0, 0)
        /\ UNCHANGED <<now, presented, calc>>

\* sched and token are the Notifier's registrations and next identifier at
\* the moment of the call (the caller may have cancelled or scheduled before)
updateAlarm_NoCancel(id, updates, sched, token) ==
    /\ id \in DOMAIN alarms
    /\ LET existingAlarm == alarms[id]
           merged        == Spread(existingAlarm, updates)
           arm           == needsReschedule(updates) /\ merged.isEnabled
           updatedAlarm  ==
               IF needsReschedule(updates)
               THEN [merged EXCEPT !.notificationId = IF arm THEN token ELSE NoId]
               ELSE merged
       IN  /\ arm => token <= MaxTokens
           /\ scheduled' = IF arm
                           THEN scheduleAlarm(sched, token, id, updatedAlarm, now)
                           ELSE sched
           /\ nextToken' = IF arm THEN token + 1 ELSE token
           /\ id \in DOMAIN store
           /\ store'     = StorageUpdateAlarm(store, id, updatedAlarm)
           /\ alarms'    = [a \in DOMAIN alarms |->
                               IF a = id THEN updatedAlarm ELSE alarms[a]]

updateAlarm(id, updates, sched, token) ==
    /\ id \in DOMAIN alarms
    /\ LET existingAlarm == alarms[id]
           merged        == Spread(existingAlarm, updates)
           arm           == needsReschedule(updates) /\ merged.isEnabled
           updatedAlarm  ==
               IF needsReschedule(updates)
               THEN [merged EXCEPT !.notificationId = IF arm THEN token ELSE NoId]
               ELSE merged
           cancelled     ==
               IF needsReschedule(updates)
               THEN cancelAlarm(sched, existingAlarm.notificationId)
               ELSE sched
       IN  /\ arm => token <= MaxTokens
           /\ scheduled' = IF arm
                           THEN scheduleAlarm(cancelled, token, id, updatedAlarm, now)
                           ELSE cancelled
           /\ nextToken' = IF arm THEN token + 1 ELSE token
           /\ id \in DOMAIN store
           /\ store'     = StorageUpdateAlarm(store, id, updatedAlarm)
           /\ alarms'    = [a \in DOMAIN alarms |->
                               IF a = id THEN updatedAlarm ELSE alarms[a]]

\* a delete that removes the record and leaves the Notifier alone
deleteAlarm_NoCancel(id) ==
    /\ id \in DOMAIN alarms
    /\ scheduled' = scheduled
    /\ store'     = StorageDeleteAlarm(store, id)
    /\ alarms'    = [a \in DOMAIN alarms \ {id} |-> alarms[a]]
    /\ last'      = LastOp("delete", id, alarms[id].notificationId, NoId, 0, 0)
    /\ UNCHANGED <<now, presented, nextToken, nextAlarm, calc>>

deleteAlarm(id) ==
    /\ id \in DOMAIN alarms
    /\ scheduled' = cancelAlarm(scheduled, alarms[id].notificationId)
    /\ store'     = StorageDeleteAlarm(store, id)
    /\ alarms'    = [a \in DOMAIN alarms \ {id} |-> alarms[a]]
    /\ last'      = LastOp("delete", id, alarms[id].notificationId, NoId, 0, 0)
    /\ UNCHANGED <<now, presented, nextToken, nextAlarm, calc>>

toggleAlarm(id) ==
    /\ id \in DOMAIN alarms
    /\ updateAlarm(id, [isEnabled |-> ~alarms[id].isEnabled], scheduled, nextToken)
    /\ last' = LastOp("toggle", id, alarms[id].notificationId,
                      IF nextToken' > nextToken THEN nextToken ELSE NoId, 0, 0)
    /\ UNCHANGED <<now, presented, nextAlarm, calc>>

\* AlarmEditScreen.handleSave in edit mode: updateAlarm(alarmId, alarmData)
editAlarm(id, alarmData) ==
    /\ id \in DOMAIN alarms
    /\ updateAlarm(id, alarmData, scheduled, nextToken)
    /\ last' = LastOp("edit", id, alarms[id].notificationId,
                      IF nextToken' > nextToken THEN nextToken ELSE NoId, 0, 0)
    /\ UNCHANGED <<now, presented, nextAlarm, calc>>

(***************************************************************************)
(* App: the snooze and dismiss callbacks of useNotificationListener        *)
(***************************************************************************)
\* a snooze that does not look the alarm up before scheduling
onSnooze_NoLookup(alarmId) ==
    IF alarmId \notin DOMAIN alarms
    THEN /\ nextToken <= MaxTokens
         /\ scheduled' = scheduleSnooze(scheduled, nextToken, alarmId, 10, now)
         /\ nextToken' = nextToken + 1
         /\ UNCHANGED <<alarms, store>>
    ELSE LET alarm     == alarms[alarmId]
             cancelled == cancelAlarm(scheduled, alarm.notificationId)
             token     == nextToken
         IN  /\ token <= MaxTokens
             /\ updateAlarm(alarmId, [notificationId |-> token],
                            scheduleSnooze(cancelled, token, alarmId,
                                           alarm.snoozeDuration, now),
                            token + 1)

\* a snooze callback that does not look at the alarm's snoozeEnabled
onSnooze_AnyPolicy(alarmId) ==
    IF alarmId \notin DOMAIN alarms
    THEN UNCHANGED <<alarms, store, scheduled, nextToken>>
    ELSE LET alarm     == alarms[alarmId]
             cancelled == cancelAlarm(scheduled, alarm.notificationId)
             token     == nextToken
         IN  /\ token <= MaxTokens
             /\ updateAlarm(alarmId, [notificationId |-> token],
                            scheduleSnooze(cancelled, token, alarmId,
                                           alarm.snoozeDuration, now),
                            token + 1)

onSnooze(alarmId) ==
    IF alarmId \notin DOMAIN alarms \/ ~alarms[alarmId].snoozeEnabled
    THEN UNCHANGED <<alarms, store, scheduled, nextToken>>
    ELSE LET alarm     == alarms[alarmId]
             cancelled == cancelAlarm(scheduled, alarm.notificationId)
             token     == nextToken
         IN  /\ token <= MaxTokens
             /\ updateAlarm(alarmId, [notificationId |-> token],
                            scheduleSnooze(cancelled, token, alarmId,
                                           alarm.snoozeDuration, now),
                            token + 1)

onDismiss_StaysEnabled(alarmId) ==
    IF alarmId \notin DOMAIN alarms
    THEN UNCHANGED <<alarms, store, scheduled, nextToken>>
    ELSE LET alarm     == alarms[alarmId]
             cancelled == cancelAlarm(scheduled, alarm.notificationId)
             token     == nextToken
         IN  IF alarm.repeats # {}
             THEN IF reschedulesRepeating(alarm)
                  THEN /\ token <= MaxTokens
                       /\ updateAlarm(alarmId, [notificationId |-> token],
                                      scheduleAlarm(cancelled, token, alarmId, alarm, now),
                                      token + 1)
                  ELSE /\ scheduled' = cancelled
                       /\ UNCHANGED <<alarms, store, nextToken>>
             ELSE updateAlarm(alarmId, [notificationId |-> NoId], cancelled, token)

onDismiss(alarmId) ==
    IF alarmId \notin DOMAIN alarms
    THEN UNCHANGED <<alarms, store, scheduled, nextToken>>
    ELSE LET alarm     == alarms[alarmId]
             cancelled == cancelAlarm(scheduled, alarm.notificationId)
             token     == nextToken
         IN  IF alarm.repeats # {}
             THEN IF reschedulesRepeating(alarm)
                  THEN /\ token <= MaxTokens
                       /\ updateAlarm(alarmId, [notificationId |-> token],
                                      scheduleAlarm(cancelled, token, alarmId, alarm, now),
                                      token + 1)
                  ELSE /\ scheduled' = cancelled
                       /\ UNCHANGED <<alarms, store, nextToken>>
             ELSE updateAlarm(alarmId,
                              [isEnabled |-> FALSE, notificationId |-> NoId],
                              cancelled, token)

\* notificationResponseSubscription: the notification leaves the tray, then
\* the action button (or a tap, treated as dismiss) is handled
respondSnooze(n) ==
    /\ n \in presented
    /\ presented' = presented \ {n}
    /\ onSnooze(n.alarmId)
    /\ last' = LastOp("snooze", n.alarmId,
                      IF n.alarmId \in DOMAIN alarms
                      THEN alarms[n.alarmId].notificationId ELSE NoId,
                      IF nextToken' > nextToken THEN nextToken ELSE NoId,
                      n.triggerDate, now)
    /\ UNCHANGED <<now, nextAlarm, calc>>

respondDismiss(n) ==
    /\ n \in presented
    /\ presented' = presented \ {n}
    /\ onDismiss(n.alarmId)
    /\ last' = LastOp("dismiss", n.alarmId,
                      IF n.alarmId \in DOMAIN alarms
                      THEN alarms[n.alarmId].notificationId ELSE NoId,
                      IF nextToken' > nextToken THEN nextToken ELSE NoId,
                      n.triggerDate, 0)
    /\ UNCHANGED <<now, nextAlarm, calc>>

(***************************************************************************)
(* NotificationService: the handler the Notifier calls on delivery         *)
(***************************************************************************)
\* the two-way window the handler had before the one-way time check
handleNotification_TwoWay(r, t) ==
    /\ ~(r.triggerDate - t > TOLERANCE_SECONDS)
    /\ ~(t - r.triggerDate > TOLERANCE_SECONDS)

\* shouldShow of handleNotification, for a registration delivered at t
handleNotification(r, t) == ~(r.triggerDate - t > TOLERANCE_SECONDS)

\* The Notifier delivers registration r.  A delivery that is shown consumes
\* the registration; a callback the handler blocks either consumed it or
\* was made at registration time with the registration still scheduled.
fire(r, consumed) ==
    /\ r \in scheduled
    /\ IF handleNotification(r, now)
       THEN /\ scheduled' = scheduled \ {r}
            /\ presented' = presented \cup {r}
       ELSE /\ scheduled' = IF consumed THEN scheduled \ {r} ELSE scheduled
            /\ presented' = presented
    /\ last' = LastOp("fire", r.alarmId, r.identifier, NoId, 0, 0)
    /\ UNCHANGED <<now, alarms, store, nextToken, nextAlarm, calc>>

(***************************************************************************)
(* The wall clock                                                          *)
(***************************************************************************)
\* instants around the trigger dates of the registrations made so far
Instants ==
    UNION {{r.triggerDate - TOLERANCE_SECONDS, r.triggerDate} :
               r \in scheduled \cup presented}

advance(t) ==
    /\ t \in Instants
    /\ t > now
    /\ now' = t
    /\ UNCHANGED <<alarms, store, scheduled, presented, nextToken, nextAlarm, last, calc>>

(***************************************************************************)
(* Inputs                                                                  *)
(***************************************************************************)
At(day, h, m, s) == day * SecondsPerDay + h * SecondsPerHour + m * 60 + s

\* the alarms the edit screen is saved with: one-time and repeating, enabled
\* and disabled, snooze allowed and not, two times of day and two durations
AlarmInputs ==
    { [time |-> [hours |-> 7, minutes |-> 30], repeats |-> {}, isEnabled |-> TRUE,
       snoozeEnabled |-> TRUE, snoozeDuration |-> 10],
      [time |-> [hours |-> 9, minutes |-> 0], repeats |-> {"Mon", "Wed"},
       isEnabled |-> TRUE, snoozeEnabled |-> TRUE, snoozeDuration |-> 1],
      [time |-> [hours |-> 9, minutes |-> 0], repeats |-> {}, isEnabled |-> FALSE,
       snoozeEnabled |-> FALSE, snoozeDuration |-> 10] }

Idle == [phase |-> "idle"]

NoOp == [op |-> "init", id |-> 0, old |-> NoId, new |-> NoId, target |-> 0, at |-> 0,
         prev |-> NoId]

(***************************************************************************)
(* Spec: the lifecycle, every handler run to completion, no call failing   *)
(***************************************************************************)
Init ==
    /\ now = At(1, 8, 0, 0)            \* a Monday, 08:00:00
    /\ alarms = << >>
    /\ store = << >>
    /\ scheduled = {}
    /\ presented = {}
    /\ nextToken = 1
    /\ nextAlarm = 1
    /\ last = NoOp
    /\ calc = Idle

Create  == \E alarmInput \in AlarmInputs : addAlarm(alarmInput)
Edit    == \E id \in DOMAIN alarms : \E alarmData \in AlarmInputs : editAlarm(id, alarmData)
Toggle  == \E id \in DOMAIN alarms : toggleAlarm(id)
Delete  == \E id \in DOMAIN alarms : deleteAlarm(id)
Fire    == \E r \in scheduled : \E consumed \in BOOLEAN : fire(r, consumed)
Snooze  == \E n \in presented : respondSnooze(n)
Dismiss == \E n \in presented : respondDismiss(n)
Advance == \E t \in Instants : advance(t)

Next == Create \/ Edit \/ Toggle \/ Delete \/ Fire \/ Snooze \/ Dismiss \/ Advance

Spec == Init /\ [][Next]_vars

TypeOK ==
    /\ nextToken \in 1..(MaxTokens + 1)
    /\ nextAlarm \in 1..(MaxAlarms + 1)
    /\ DOMAIN alarms \subseteq 1..MaxAlarms

(***************************************************************************)
(* Lifecycle claims, checked under Spec                                    *)
(***************************************************************************)
\* the live registrations of an alarm: scheduled, not delivered, not cancelled
Live(id) == {r \in scheduled : r.alarmId = id}

Tokens(sched) == {r.identifier : r \in sched}

Exists(id) == id \in DOMAIN alarms

(***************************************************************************)
(* C1: in every reachable state the Notifier holds at most one live        *)
(* registration per alarm id.                                              *)
(***************************************************************************)
C1_AtMostOneLive == \A id \in 1..MaxAlarms : Cardinality(Live(id)) <= 1

\* an armed alarm was armed again and has exactly one live registration
C1_Witness ==
    /\ last.op \in {"edit", "toggle", "snooze", "dismiss"}
    /\ last.old # NoId
    /\ last.new # NoId
    /\ Cardinality(Live(last.id)) = 1

(***************************************************************************)
(* C2: for an alarm with no notification awaiting snooze or dismiss, the   *)
(* record's notificationId is set if and only if the alarm is enabled.     *)
(***************************************************************************)
C2_TokenIffEnabled ==
    \A id \in DOMAIN alarms :
        (\A n \in presented : n.alarmId # id) =>
            (alarms[id].notificationId # NoId <=> alarms[id].isEnabled)

(***************************************************************************)
(* C3: no live registration exists for an alarm whose record is disabled.  *)
(***************************************************************************)
C3_NoLiveForDisabled ==
    \A r \in scheduled : Exists(r.alarmId) => alarms[r.alarmId].isEnabled

(***************************************************************************)
(* C7: after two edits in a row of the same enabled alarm exactly one      *)
(* registration of the alarm is live: the second edit's, whose token the   *)
(* record holds; the first edit's registration is cancelled.               *)
(***************************************************************************)
TwoEdits ==
    /\ last.op = "edit"
    /\ last.prev # NoId
    /\ Exists(last.id)
    /\ alarms[last.id].isEnabled

C7_EditTwiceOneLive ==
    TwoEdits =>
        /\ last.old = last.prev
        /\ last.new \notin {NoId, last.prev}
        /\ Tokens(Live(last.id)) = {last.new}
        /\ Cardinality(Live(last.id)) = 1
        /\ last.prev \notin Tokens(scheduled)
        /\ alarms[last.id].notificationId = last.new

C7_Witness == TwoEdits /\ Tokens(Live(last.id)) = {last.new}

(***************************************************************************)
(* C8: dismissing a one-time alarm leaves it disabled, with no             *)
(* notificationId on the record and no live registration.                  *)
(***************************************************************************)
DismissedOneTime ==
    /\ last.op = "dismiss"
    /\ Exists(last.id)
    /\ alarms[last.id].repeats = {}

C8_DismissOneTime ==
    DismissedOneTime =>
        /\ ~alarms[last.id].isEnabled
        /\ alarms[last.id].notificationId = NoId
        /\ Live(last.id) = {}

\* the alarm dismissed was armed: its record held a token
C8_Witness == DismissedOneTime /\ last.old # NoId /\ ~alarms[last.id].isEnabled

(***************************************************************************)
(* C9: dismissing an enabled repeating alarm leaves it enabled with a new  *)
(* live registration whose trigger date is strictly later than the trigger *)
(* date of the notification dismissed.                                     *)
(***************************************************************************)
C9_DismissRepeatingLater ==
    (/\ last.op = "dismiss"
     /\ Exists(last.id)
     /\ alarms[last.id].repeats # {}
     /\ alarms[last.id].isEnabled)
    => \E r \in Live(last.id) :
          /\ r.identifier = alarms[last.id].notificationId
          /\ r.identifier = last.new
          /\ r.triggerDate > last.target

(***************************************************************************)
(* C10: a snooze at instant T of an alarm that allows snoozing cancels the *)
(* token the record held, registers exactly one trigger at T plus the      *)
(* snooze duration in minutes, marked as a snooze, and stores its token on *)
(* the record.                                                             *)
(***************************************************************************)
Snoozed ==
    /\ last.op = "snooze"
    /\ Exists(last.id)
    /\ alarms[last.id].snoozeEnabled

C10_Snooze ==
    Snoozed =>
        /\ last.new # NoId
        /\ last.old \notin Tokens(scheduled)
        /\ alarms[last.id].notificationId = last.new
        /\ Cardinality(Live(last.id)) = 1
        /\ \A r \in Live(last.id) :
              /\ r.identifier = last.new
              /\ r.isSnoozed
              /\ r.triggerDate = last.at + alarms[last.id].snoozeDuration * 60

\* the record held a token when the snooze arrived
C10_Witness == Snoozed /\ last.old # NoId /\ last.new # NoId

(***************************************************************************)
(* SpecTime: the next-trigger computation applied to sampled inputs        *)
(***************************************************************************)
SampleHours   == {0, 7, 9, 23}
SampleMinutes == {0, 30, 59}

\* seconds of the day at which now is sampled: around the alarm time, at the
\* ends of the day and at 08:00:00
SampleSeconds(time) ==
    LET a == time.hours * SecondsPerHour + time.minutes * 60
    IN  {x \in {0, a - 1, a, a + 1, 8 * SecondsPerHour, SecondsPerDay - 1} :
            x >= 0 /\ x < SecondsPerDay}

InitTime ==
    /\ now = 0
    /\ alarms = << >>
    /\ store = << >>
    /\ scheduled = {}
    /\ presented = {}
    /\ nextToken = 1
    /\ nextAlarm = 1
    /\ last = NoOp
    /\ \E h \in SampleHours, m \in SampleMinutes, repeats \in SUBSET WEEK_DAYS,
          day \in 0..MaxDay :
          LET time == [hours |-> h, minutes |-> m]
          IN  \E x \in SampleSeconds(time) :
                  calc = [phase |-> "input", time |-> time, repeats |-> repeats,
                          t |-> day * SecondsPerDay + x, result |-> Null]

Compute ==
    /\ calc.phase = "input"
    /\ calc' = [calc EXCEPT !.phase = "result",
                            !.result = getNextAlarmTime(calc.time, calc.repeats, calc.t)]
    /\ UNCHANGED <<now, alarms, store, scheduled, presented, nextToken, nextAlarm, last>>

NextTime == Compute

SpecTime == InitTime /\ [][NextTime]_vars

Computed == calc.phase = "result"

(***************************************************************************)
(* C4: for every valid time of day, every repeat set and every instant     *)
(* now, getNextAlarmTime returns an instant strictly greater than now,     *)
(* also when now is exactly the alarm time.                                *)
(***************************************************************************)
C4_StrictlyAfterNow == Computed => calc.result > calc.t

\* now is exactly the alarm time on a day the alarm repeats on
C4_Witness ==
    /\ Computed
    /\ calc.t = setHours(calc.t, calc.time.hours, calc.time.minutes)
    /\ NUMBER_TO_WEEKDAY[getDay(calc.t)] \in calc.repeats
    /\ calc.result > calc.t

(***************************************************************************)
(* C5: for a non-empty repeat set the weekday of the returned instant is   *)
(* in the repeat set and its hour and minute are the alarm's time of day.  *)
(***************************************************************************)
C5_WeekdayInRepeats ==
    (Computed /\ calc.repeats # {}) =>
        /\ NUMBER_TO_WEEKDAY[getDay(calc.result)] \in calc.repeats
        /\ getHours(calc.result) = calc.time.hours
        /\ getMinutes(calc.result) = calc.time.minutes

\* today is not a repeat day although the alarm time is still ahead today
C5_Witness ==
    /\ Computed
    /\ calc.repeats # {}
    /\ NUMBER_TO_WEEKDAY[getDay(calc.t)] \notin calc.repeats
    /\ setHours(calc.t, calc.time.hours, calc.time.minutes) > calc.t
    /\ NUMBER_TO_WEEKDAY[getDay(calc.result)] \in calc.repeats

(***************************************************************************)
(* C6: the returned instant is the earliest instant strictly after now     *)
(* that has the alarm's time of day and, for a non-empty repeat set, a     *)
(* weekday of the set; so a one-time alarm is at most 24 hours away, a     *)
(* repeating one at most 7 days, and a repeat day equal to today whose     *)
(* time has passed is 7 days out.                                          *)
(***************************************************************************)
Qualifies(c, time, repeats, t) ==
    /\ c > t
    /\ c % SecondsPerDay = time.hours * SecondsPerHour + time.minutes * 60
    /\ repeats = {} \/ NUMBER_TO_WEEKDAY[(c \div SecondsPerDay) % 7] \in repeats

\* the instants with the alarm's time of day on today and the 7 days after
Candidates(time, t) ==
    {((t \div SecondsPerDay) + d) * SecondsPerDay
        + time.hours * SecondsPerHour + time.minutes * 60 : d \in 0..7}

FireOffsets == {-3600, -60, -31, -30, -29, -1, 0, 1, 30, 31, 3600}

\* the state addAlarm leaves for an enabled alarm created on Monday 08:00:00,
\* with the clock moved to d seconds from the trigger date
InitFire ==
    \E alarmInput \in {a \in AlarmInputs : a.isEnabled} : \E d \in FireOffsets :
        LET created  == At(1, 8, 0, 0)
            newAlarm == [time           |-> alarmInput.time,
                         repeats        |-> alarmInput.repeats,
                         isEnabled      |-> TRUE,
                         snoozeEnabled  |-> alarmInput.snoozeEnabled,
                         snoozeDuration |-> alarmInput.snoozeDuration,
                         notificationId |-> 1]
        IN  /\ now = calculateNextTrigger(newAlarm, created) + d
            /\ alarms = [i \in {1} |-> newAlarm]
            /\ store = [i \in {1} |-> newAlarm]
            /\ scheduled = scheduleAlarm({}, 1, 1, newAlarm, created)
            /\ presented = {}
            /\ nextToken = 2
            /\ nextAlarm = 2
            /\ last = [NoOp EXCEPT !.op = "create", !.id = 1, !.new = 1]
            /\ calc = Idle

NextFire == Fire \/ Snooze \/ Dismiss

SpecFire == InitFire /\ [][NextFire]_vars

C12_FireClearsToken ==
    (/\ last.op = "fire"
     /\ \E n \in presented : n.identifier = last.old
     /\ Exists(last.id))
    => alarms[last.id].notificationId = NoId

(***************************************************************************)
(* SpecStale: the lifecycle with callbacks that name no alarm of the app:  *)
(* responses whose payload has no alarm id or the id of no alarm, and      *)
(* repeated deliveries of a notification already shown                     *)
(***************************************************************************)
NoAlarm == 0      \* data?.alarmId undefined

\* notificationResponseSubscription called for a notification that is not in
\* the tray (a duplicate or foreign response); alarmId is the payload's
staleResponse(alarmId, actionIdentifier) ==
    /\ alarmId \notin DOMAIN alarms
    /\ IF alarmId = NoAlarm
       THEN UNCHANGED <<alarms, store, scheduled, nextToken>>
       ELSE IF actionIdentifier = "snooze"
            THEN onSnooze(alarmId)
            ELSE onDismiss(alarmId)
    /\ last' = LastOp(actionIdentifier, alarmId, NoId,
                      IF nextToken' > nextToken THEN nextToken ELSE NoId, 0, 0)
    /\ UNCHANGED <<now, presented, nextAlarm, calc>>

\* handleNotification called again for a notification already shown
duplicateFire(n) ==
    /\ n \in presented
    /\ presented' = IF handleNotification(n, now) THEN presented \cup {n} ELSE presented
    /\ last' = LastOp("fire", n.alarmId, n.identifier, NoId, 0, 0)
    /\ UNCHANGED <<now, alarms, store, scheduled, nextToken, nextAlarm, calc>>

StaleResponse ==
    \E alarmId \in {NoAlarm} \cup (1..MaxAlarms) :
        \E actionIdentifier \in {"snooze", "dismiss"} :
            staleResponse(alarmId, actionIdentifier)

DuplicateFire == \E n \in presented : duplicateFire(n)

NextStale ==
    Create \/ Delete \/ Fire \/ Snooze \/ Dismiss \/ Advance \/ StaleResponse \/ DuplicateFire

SpecStale == Init /\ [][NextStale]_vars

(***************************************************************************)
(* C13: a fire, snooze or dismiss callback for an alarm that is not among  *)
(* the alarms (deleted, never created, or no alarm id in the payload)      *)
(* changes no alarm record, writes nothing to the Store and schedules and  *)
(* cancels nothing at the Notifier.                                        *)
(***************************************************************************)
C13_NotFoundNoOp ==
    [][/\ \A n \in presented :
             (n.alarmId \notin DOMAIN alarms
                 /\ (respondSnooze(n) \/ respondDismiss(n) \/ duplicateFire(n)))
             => UNCHANGED <<alarms, store, scheduled, nextToken>>
       /\ \A alarmId \in {NoAlarm} \cup (1..MaxAlarms) :
             (staleResponse(alarmId, "snooze") \/ staleResponse(alarmId, "dismiss"))
             => UNCHANGED <<alarms, store, scheduled, nextToken>>
       /\ \A r \in scheduled : \A consumed \in BOOLEAN :
             (r.alarmId \notin DOMAIN alarms /\ fire(r, consumed))
             => UNCHANGED <<alarms, store, nextToken>>]_vars

\* the snooze or dismiss of a notification shown for an alarm deleted since ran
C13_Witness ==
    /\ last.op \in {"snooze", "dismiss"}
    /\ last.id # NoAlarm
    /\ last.id \notin DOMAIN alarms
    /\ last.target # 0

(***************************************************************************)
(* C14: a toggle to disabled cancels the token the record held, leaves the *)
(* record without token in memory and in the Store and leaves no live      *)
(* registration of the alarm; a toggle to enabled leaves exactly one live  *)
(* registration of the alarm, at the next-trigger instant computed from    *)
(* the time of the toggle, whose token the record holds in memory and in   *)
(* the Store.                                                              *)
(***************************************************************************)
C14_Toggle ==
    [][\A id \in DOMAIN alarms :
          (last'.op = "toggle" /\ toggleAlarm(id)) =>
              /\ alarms'[id].isEnabled = ~alarms[id].isEnabled
              /\ store'[id] = alarms'[id]
              /\ alarms[id].notificationId \notin Tokens(scheduled')
              /\ IF alarms[id].isEnabled
                 THEN /\ alarms'[id].notificationId = NoId
                      /\ {r \in scheduled' : r.alarmId = id} = {}
                 ELSE /\ alarms'[id].notificationId = nextToken
                      /\ {r \in scheduled' : r.alarmId = id} =
                            {[identifier  |-> nextToken,
                              alarmId     |-> id,
                              isSnoozed   |-> FALSE,
                              triggerDate |-> getNextAlarmTime(alarms[id].time,
                                                               alarms[id].repeats, now)]}]_vars

\* an alarm that had been disabled was toggled to enabled and is armed
C14_Witness ==
    /\ last.op = "toggle"
    /\ Exists(last.id)
    /\ alarms[last.id].isEnabled
    /\ last.old = NoId
    /\ last.new # NoId
    /\ Tokens(Live(last.id)) = {last.new}

(***************************************************************************)
(* SpecFail: creation with any time of day, valid or not, and with the     *)
(* Notifier's schedule call failing or not                                 *)
(***************************************************************************)
\* SchedulerService.scheduleAlarm throws: the time does not parse (the throw
\* of parseTimeString inside calculateNextTrigger) or the Notifier fails
scheduleAlarmThrows(alarm, notifierFails) ==
    parseTimeString(alarm.time) = Invalid \/ notifierFails

\* addAlarm with its catch blocks: a throw of scheduleAlarm is rethrown,
\* setError is called, and neither StorageService.addAlarm nor setAlarms runs
addAlarmOrThrow(alarmInput, notifierFails) ==
    IF alarmInput.isEnabled /\ scheduleAlarmThrows(alarmInput, notifierFails)
    THEN /\ nextAlarm <= MaxAlarms
         /\ last' = LastOp("createFailed", nextAlarm, NoId, NoId, 0, 0)
         /\ UNCHANGED <<now, alarms, store, scheduled, presented, nextToken,
                        nextAlarm, calc>>
    ELSE addAlarm(alarmInput)

\* alarm data whose time of day is out of range
InvalidInputs ==
    { [time |-> [hours |-> h, minutes |-> m], repeats |-> {}, isEnabled |-> e,
       snoozeEnabled |-> TRUE, snoozeDuration |-> 10] :
          h \in {7, 24}, m \in {30, 60}, e \in BOOLEAN } \
    { [time |-> [hours |-> 7, minutes |-> 30], repeats |-> {}, isEnabled |-> e,
       snoozeEnabled |-> TRUE, snoozeDuration |-> 10] : e \in BOOLEAN }

CreateOrThrow ==
    \E alarmInput \in AlarmInputs \cup InvalidInputs : \E notifierFails \in BOOLEAN :
        addAlarmOrThrow(alarmInput, notifierFails)

NextFail == CreateOrThrow \/ Delete \/ Fire \/ Snooze \/ Dismiss \/ Advance

SpecFail == Init /\ [][NextFail]_vars

(***************************************************************************)
(* C15: when the Notifier's schedule call fails while an enabled alarm     *)
(* with a valid time is created, the failure is reported and the record is *)
(* nevertheless created in memory and in the Store, disabled and without   *)
(* token.                                                                  *)
(***************************************************************************)
C15_CreateKeptOnScheduleFailure ==
    [][\A alarmInput \in {a \in AlarmInputs : a.isEnabled} :
          addAlarmOrThrow(alarmInput, TRUE) =>
              /\ last'.op = "createFailed"
              /\ nextAlarm \in DOMAIN alarms'
              /\ nextAlarm \in DOMAIN store'
              /\ ~alarms'[nextAlarm].isEnabled
              /\ alarms'[nextAlarm].notificationId = NoId
              /\ store'[nextAlarm] = alarms'[nextAlarm]]_vars

(***************************************************************************)
(* C16: creating an alarm whose time of day is out of range fails and adds *)
(* no record to memory or to the Store and registers nothing at the        *)
(* Notifier, whether the alarm data is enabled or disabled.                *)
(***************************************************************************)
C16_InvalidTimeRejected ==
    [][\A alarmInput \in InvalidInputs : \A notifierFails \in BOOLEAN :
          addAlarmOrThrow(alarmInput, notifierFails) =>
              /\ last'.op = "createFailed"
              /\ UNCHANGED <<alarms, store, scheduled, nextToken>>]_vars

(***************************************************************************)
(* SpecAll: SchedulerService.rescheduleAllAlarms over a list of alarms,    *)
(* some of whose scheduling fails                                          *)
(***************************************************************************)
MaxList == 3      \* alarms in the list handed to rescheduleAllAlarms

\* results.set(key, value)
MapSet(results, key, value) ==
    [k \in DOMAIN results \cup {key} |-> IF k = key THEN value ELSE results[k]]

\* a loop that gives up at the first alarm whose scheduling throws
RECURSIVE rescheduleAllLoop_Abort(_, _, _, _)
rescheduleAllLoop_Abort(list, i, fails, acc) ==
    IF i \notin DOMAIN list THEN acc
    ELSE IF ~list[i].isEnabled
         THEN rescheduleAllLoop_Abort(list, i + 1, fails, acc)
         ELSE IF scheduleAlarmThrows(list[i], i \in fails)
              THEN acc
              ELSE rescheduleAllLoop_Abort(list, i + 1, fails,
                       [results   |-> MapSet(acc.results, i, acc.token),
                        scheduled |-> scheduleAlarm(acc.scheduled, acc.token, i,
                                                    list[i], now),
                        token     |-> acc.token + 1])

\* for (const alarm of enabledAlarms) { try { schedule; results.set } catch {} }
\* list maps the alarm ids 1..n, in array order, to the alarms; fails holds the
\* ids for which the Notifier's schedule call fails
RECURSIVE rescheduleAllLoop(_, _, _, _)
rescheduleAllLoop(list, i, fails, acc) ==
    IF i \notin DOMAIN list THEN acc
    ELSE IF ~list[i].isEnabled
         THEN rescheduleAllLoop(list, i + 1, fails, acc)
         ELSE IF scheduleAlarmThrows(list[i], i \in fails)
              THEN rescheduleAllLoop(list, i + 1, fails, acc)
              ELSE rescheduleAllLoop(list, i + 1, fails,
                       [results   |-> MapSet(acc.results, i, acc.token),
                        scheduled |-> scheduleAlarm(acc.scheduled, acc.token, i,
                                                    list[i], now),
                        token     |-> acc.token + 1])

rescheduleAllAlarms(list, fails, sched, token) ==
    rescheduleAllLoop(list, 1, fails,
                      [results |-> << >>, scheduled |-> sched, token |-> token])

\* the records a list is made of: the alarm data of the edit screen and alarm
\* data with an out-of-range time, as stored records
StoredAlarm(alarmInput, token) ==
    [time           |-> alarmInput.time,
     repeats        |-> alarmInput.repeats,
     isEnabled      |-> alarmInput.isEnabled,
     snoozeEnabled  |-> alarmInput.snoozeEnabled,
     snoozeDuration |-> alarmInput.snoozeDuration,
     notificationId |-> IF alarmInput.isEnabled THEN token ELSE NoId]

ListInputs ==
    AlarmInputs \cup {a \in InvalidInputs : a.time.hours = 24 /\ a.time.minutes = 30}

\* after a restart: the stored alarms are loaded, enabled records hold the
\* tokens of registrations the Notifier no longer has
InitAll ==
    \E n \in 0..MaxList : \E inputs \in [1..n -> ListInputs] : \E fails \in SUBSET (1..n) :
        /\ now = At(1, 8, 0, 0)
        /\ alarms = [i \in 1..n |-> StoredAlarm(inputs[i], i)]
        /\ store = alarms
        /\ scheduled = {}
        /\ presented = {}
        /\ nextToken = n + 1
        /\ nextAlarm = n + 1
        /\ last = NoOp
        /\ calc = [phase |-> "input", fails |-> fails]

RescheduleAll ==
    /\ calc.phase = "input"
    /\ LET out == rescheduleAllAlarms(alarms, calc.fails, scheduled, nextToken)
       IN  /\ calc' = [phase |-> "done", fails |-> calc.fails, results |-> out.results]
           /\ scheduled' = out.scheduled
           /\ nextToken' = out.token
    /\ UNCHANGED <<now, alarms, store, presented, nextAlarm, last>>

NextAll == RescheduleAll

SpecAll == InitAll /\ [][NextAll]_vars

(***************************************************************************)
(* C17: rescheduleAllAlarms returns a map whose keys are exactly the       *)
(* enabled alarms of the list whose scheduling did not fail, each mapped   *)
(* to the token of a registration made for that alarm; alarms after a      *)
(* failing one are still scheduled, and no disabled alarm is scheduled or  *)
(* appears in the map.                                                     *)
(***************************************************************************)
C17_RescheduleAllKeys ==
    calc.phase = "done" =>
        LET ok == {i \in DOMAIN alarms :
                      /\ alarms[i].isEnabled
                      /\ i \notin calc.fails
                      /\ alarms[i].time.hours \in 0..23
                      /\ alarms[i].time.minutes \in 0..59}
        IN  /\ DOMAIN calc.results = ok
            /\ {r.alarmId : r \in scheduled} = ok
            /\ \A i \in ok : \E r \in scheduled :
                  r.alarmId = i /\ r.identifier = calc.results[i]
            /\ \A r \in scheduled : alarms[r.alarmId].isEnabled

\* the scheduling of the first alarm failed, a later enabled alarm is in the
\* map and a disabled alarm is in the list
C17_Witness ==
    /\ calc.phase = "done"
    /\ 1 \in calc.fails
    /\ alarms[1].isEnabled
    /\ \E i \in DOMAIN calc.results : i > 1
    /\ \E i \in DOMAIN alarms : ~alarms[i].isEnabled

(***************************************************************************)
(* C18: after a delete the alarm is absent from memory and from the Store, *)
(* the token its record held is cancelled and no live registration of the  *)
(* alarm remains.                                                          *)
(***************************************************************************)
C18_DeleteCancels ==
    last.op = "delete" =>
        /\ last.id \notin DOMAIN alarms
        /\ last.id \notin DOMAIN store
        /\ last.old \notin Tokens(scheduled)
        /\ Live(last.id) = {}

\* the alarm deleted was armed: its record held a token
C18_Witness ==
    /\ last.op = "delete"
    /\ last.old # NoId
    /\ last.id \notin DOMAIN alarms
    /\ presented = {}

(***************************************************************************)
(* SpecRace: handlers of one alarm running as the code runs them, one      *)
(* await at a time.  A handler works on the alarm it found when it was     *)
(* called (the `alarms` its closure holds); its cancel, its schedule and   *)
(* its write of the record are separate steps, and nothing keeps a second  *)
(* handler from running between them.                                      *)
(***************************************************************************)
MaxCalls == 2     \* handler invocations in one run

Done == [pc |-> "done"]

\* a handler invocation: the alarm found at the call (existing), the record
\* it will write (merged, its token filled in by the schedule step), what it
\* schedules (arm) and whether it writes the record at all (writes)
Call(kind, id, existing, merged, arm, writes) ==
    [kind |-> kind, id |-> id, existing |-> existing, merged |-> merged,
     arm |-> arm, writes |-> writes, pc |-> "cancel"]

\* updateAlarm(id, updates) up to its first await
updateAlarmCall(kind, id, updates) ==
    LET existingAlarm == alarms[id]
        merged        == [Spread(existingAlarm, updates) EXCEPT !.notificationId = NoId]
    IN  Call(kind, id, existingAlarm, merged,
             IF merged.isEnabled THEN "alarm" ELSE "none", TRUE)

\* onSnooze up to its first await
onSnoozeCall(alarmId) ==
    Call("snooze", alarmId, alarms[alarmId], alarms[alarmId], "snooze", TRUE)

\* onDismiss up to its first await
onDismissCall(alarmId) ==
    LET alarm == alarms[alarmId]
    IN  IF alarm.repeats # {}
        THEN Call("dismiss", alarmId, alarm, alarm,
                  IF reschedulesRepeating(alarm) THEN "alarm" ELSE "none",
                  reschedulesRepeating(alarm))
        ELSE Call("dismiss", alarmId, alarm,
                  [alarm EXCEPT !.isEnabled = FALSE, !.notificationId = NoId],
                  "none", TRUE)

Calls == calc.calls

begin(call) ==
    /\ calc.phase = "race"
    /\ Len(Calls) < MaxCalls
    /\ calc' = [calc EXCEPT !.calls = Append(Calls, call)]

beginToggle(id) ==
    /\ id \in DOMAIN alarms
    /\ begin(updateAlarmCall("toggle", id, [isEnabled |-> ~alarms[id].isEnabled]))
    /\ UNCHANGED <<now, alarms, store, scheduled, presented, nextToken, nextAlarm, last>>

beginEdit(id, alarmData) ==
    /\ id \in DOMAIN alarms
    /\ begin(updateAlarmCall("edit", id, alarmData))
    /\ UNCHANGED <<now, alarms, store, scheduled, presented, nextToken, nextAlarm, last>>

beginSnooze(n) ==
    /\ n \in presented
    /\ n.alarmId \in DOMAIN alarms
    /\ alarms[n.alarmId].snoozeEnabled
    /\ presented' = presented \ {n}
    /\ begin(onSnoozeCall(n.alarmId))
    /\ UNCHANGED <<now, alarms, store, scheduled, nextToken, nextAlarm, last>>

beginDismiss(n) ==
    /\ n \in presented
    /\ n.alarmId \in DOMAIN alarms
    /\ presented' = presented \ {n}
    /\ begin(onDismissCall(n.alarmId))
    /\ UNCHANGED <<now, alarms, store, scheduled, nextToken, nextAlarm, last>>

\* await SchedulerService.cancelAlarm(existingAlarm.notificationId)
stepCancel(i) ==
    /\ calc.phase = "race"
    /\ i \in DOMAIN Calls
    /\ Calls[i].pc = "cancel"
    /\ LET c == Calls[i]
       IN  /\ scheduled' = cancelAlarm(scheduled, c.existing.notificationId)
           /\ calc' = [calc EXCEPT !.calls[i] =
                          IF c.arm # "none" THEN [c EXCEPT !.pc = "schedule"]
                          ELSE IF c.writes THEN [c EXCEPT !.pc = "write"]
                          ELSE Done]
    /\ UNCHANGED <<now, alarms, store, presented, nextToken, nextAlarm, last>>

\* await SchedulerService.scheduleAlarm / scheduleSnooze / rescheduleRepeatingAlarm
stepSchedule(i) ==
    /\ calc.phase = "race"
    /\ i \in DOMAIN Calls
    /\ Calls[i].pc = "schedule"
    /\ LET c     == Calls[i]
           token == nextToken
       IN  /\ scheduled' = IF c.arm = "snooze"
                           THEN scheduleSnooze(scheduled, token, c.id,
                                               c.existing.snoozeDuration, now)
                           ELSE scheduleAlarm(scheduled, token, c.id, c.merged, now)
           /\ nextToken' = token + 1
           /\ calc' = [calc EXCEPT !.calls[i] =
                          [c EXCEPT !.merged.notificationId = token, !.pc = "write"]]
    /\ UNCHANGED <<now, alarms, store, presented, nextAlarm, last>>

\* await StorageService.updateAlarm(updatedAlarm); setAlarms(prev => prev.map(...))
stepWrite(i) ==
    /\ calc.phase = "race"
    /\ i \in DOMAIN Calls
    /\ Calls[i].pc = "write"
    /\ LET c == Calls[i]
       IN  /\ c.id \in DOMAIN store
           /\ store'  = StorageUpdateAlarm(store, c.id, c.merged)
           /\ alarms' = [a \in DOMAIN alarms |-> IF a = c.id THEN c.merged ELSE alarms[a]]
           /\ last'   = LastOp(c.kind, c.id, c.existing.notificationId,
                               c.merged.notificationId, 0, 0)
           /\ calc'   = [calc EXCEPT !.calls[i] = Done]
    /\ UNCHANGED <<now, scheduled, presented, nextToken, nextAlarm>>

\* one alarm, created disabled, or created enabled and armed, or created
\* enabled with its notification shown at the trigger date
InitRace ==
    \E alarmInput \in AlarmInputs : \E shown \in BOOLEAN :
        LET created  == At(1, 8, 0, 0)
            newAlarm == StoredAlarm(alarmInput, 1)
            armed    == IF alarmInput.isEnabled
                        THEN scheduleAlarm({}, 1, 1, newAlarm, created) ELSE {}
        IN  /\ shown => alarmInput.isEnabled
            /\ now = IF shown THEN calculateNextTrigger(newAlarm, created) ELSE created
            /\ alarms = [i \in {1} |-> newAlarm]
            /\ store = alarms
            /\ scheduled = IF shown THEN {} ELSE armed
            /\ presented = IF shown THEN armed ELSE {}
            /\ nextToken = IF alarmInput.isEnabled THEN 2 ELSE 1
            /\ nextAlarm = 2
            /\ last = [NoOp EXCEPT !.op = "create", !.id = 1,
                                   !.new = newAlarm.notificationId]
            /\ calc = [phase |-> "race", calls |-> << >>]

BeginToggle  == \E id \in DOMAIN alarms : beginToggle(id)
BeginEdit    == \E id \in DOMAIN alarms : \E alarmData \in AlarmInputs : beginEdit(id, alarmData)
BeginSnooze  == \E n \in presented : beginSnooze(n)
BeginDismiss == \E n \in presented : beginDismiss(n)
StepCancel   == \E i \in 1..MaxCalls : stepCancel(i)
StepSchedule == \E i \in 1..MaxCalls : stepSchedule(i)
StepWrite    == \E i \in 1..MaxCalls : stepWrite(i)

NextRace ==
    \/ BeginToggle \/ BeginEdit \/ BeginSnooze \/ BeginDismiss
    \/ StepCancel \/ StepSchedule \/ StepWrite

SpecRace == InitRace /\ [][NextRace]_vars

(***************************************************************************)
(* C19: once every handler invocation on an alarm has finished, the alarm  *)
(* has at most one live registration and, if it has one, the record holds  *)
(* its token, whether the invocations overlapped or not.                   *)
(***************************************************************************)
Quiescent == calc.phase = "race" /\ \A i \in DOMAIN Calls : Calls[i].pc = "done"

C19_Serialized ==
    Quiescent =>
        \A id \in DOMAIN alarms :
            /\ Cardinality(Live(id)) <= 1
            /\ Tokens(Live(id)) \subseteq {alarms[id].notificationId}

(***************************************************************************)
(* SpecStore: operations on different alarms whose Store calls run as      *)
(* StorageService runs them: getAlarms (read the whole collection), change *)
(* the copy, saveAlarms (write the whole collection), with an await        *)
(* between the read and the write                                          *)
(***************************************************************************)
\* an operation that has reached its StorageService call: the record it
\* writes and, once read, the collection getAlarms returned
StoreCall(kind, id, alarm) ==
    [kind |-> kind, id |-> id, alarm |-> alarm, read |-> << >>, pc |-> "read"]

InFlight(id) ==
    \E i \in DOMAIN Calls : Calls[i].id = id /\ Calls[i].pc # "done"

\* addAlarm up to StorageService.addAlarm: the id, the record, the scheduling
beginAdd(alarmInput) ==
    LET id       == nextAlarm
        token    == nextToken
        newAlarm == StoredAlarm(alarmInput, token)
    IN  /\ calc.phase = "store"
        /\ Len(Calls) < MaxCalls
        /\ scheduled' = IF alarmInput.isEnabled
                        THEN scheduleAlarm(scheduled, token, id, newAlarm, now)
                        ELSE scheduled
        /\ nextToken' = IF alarmInput.isEnabled THEN nextToken + 1 ELSE nextToken
        /\ nextAlarm' = nextAlarm + 1
        /\ calc' = [calc EXCEPT !.calls = Append(Calls, StoreCall("add", id, newAlarm))]
        /\ UNCHANGED <<now, alarms, store, presented, last>>

\* updateAlarm(id, alarmData) up to StorageService.updateAlarm, for an alarm
\* no other operation is working on
beginUpdate(id, alarmData) ==
    /\ calc.phase = "store"
    /\ Len(Calls) < MaxCalls
    /\ id \in DOMAIN alarms
    /\ ~InFlight(id)
    /\ LET existingAlarm == alarms[id]
           token         == nextToken
           merged        == Spread(existingAlarm, alarmData)
           updatedAlarm  == [merged EXCEPT !.notificationId =
                                IF merged.isEnabled THEN token ELSE NoId]
           cancelled     == cancelAlarm(scheduled, existingAlarm.notificationId)
       IN  /\ scheduled' = IF merged.isEnabled
                           THEN scheduleAlarm(cancelled, token, id, updatedAlarm, now)
                           ELSE cancelled
           /\ nextToken' = IF merged.isEnabled THEN token + 1 ELSE token
           /\ calc' = [calc EXCEPT !.calls =
                          Append(Calls, StoreCall("update", id, updatedAlarm))]
    /\ UNCHANGED <<now, alarms, store, presented, nextAlarm, last>>

\* const alarms = await this.getAlarms()
storageRead(i) ==
    /\ calc.phase = "store"
    /\ i \in DOMAIN Calls
    /\ Calls[i].pc = "read"
    /\ calc' = [calc EXCEPT !.calls[i] = [Calls[i] EXCEPT !.read = store, !.pc = "save"]]
    /\ UNCHANGED <<now, alarms, store, scheduled, presented, nextToken, nextAlarm, last>>

\* alarms.push(alarm) or alarms[index] = updatedAlarm; await this.saveAlarms(alarms);
\* then the caller's setAlarms(prev => ...)
storageSave(i) ==
    /\ calc.phase = "store"
    /\ i \in DOMAIN Calls
    /\ Calls[i].pc = "save"
    /\ LET c == Calls[i]
       IN  IF c.kind = "update" /\ c.id \notin DOMAIN c.read
           THEN \* StorageService.updateAlarm throws 'Alarm not found'
                /\ calc' = [calc EXCEPT !.calls[i] = [c EXCEPT !.pc = "failed"]]
                /\ UNCHANGED <<alarms, store, last>>
           ELSE /\ store' = IF c.kind = "add"
                            THEN StorageAddAlarm(c.read, c.id, c.alarm)
                            ELSE StorageUpdateAlarm(c.read, c.id, c.alarm)
                /\ alarms' = [a \in DOMAIN alarms \cup {c.id} |->
                                 IF a = c.id THEN c.alarm ELSE alarms[a]]
                /\ last' = LastOp(IF c.kind = "add" THEN "create" ELSE "edit", c.id,
                                  NoId, c.alarm.notificationId, 0, 0)
                /\ calc' = [calc EXCEPT !.calls[i] = [c EXCEPT !.pc = "done"]]
    /\ UNCHANGED <<now, scheduled, presented, nextToken, nextAlarm>>

\* no alarm yet, or one alarm created earlier
InitStore ==
    \E n \in {0, 1} : \E alarmInput \in AlarmInputs :
        LET created  == At(1, 8, 0, 0)
            newAlarm == StoredAlarm(alarmInput, 1)
            armed    == n = 1 /\ alarmInput.isEnabled
        IN  /\ now = created
            /\ alarms = [i \in 1..n |-> newAlarm]
            /\ store = alarms
            /\ scheduled = IF armed THEN scheduleAlarm({}, 1, 1, newAlarm, created) ELSE {}
            /\ presented = {}
            /\ nextToken = IF armed THEN 2 ELSE 1
            /\ nextAlarm = n + 1
            /\ last = NoOp
            /\ calc = [phase |-> "store", calls |-> << >>]

BeginAdd    == \E alarmInput \in AlarmInputs : beginAdd(alarmInput)
BeginUpdate == \E id \in DOMAIN alarms : \E alarmData \in AlarmInputs : beginUpdate(id, alarmData)
StorageRead == \E i \in 1..MaxCalls : storageRead(i)
StorageSave == \E i \in 1..MaxCalls : storageSave(i)

NextStore == BeginAdd \/ BeginUpdate \/ StorageRead \/ StorageSave

SpecStore == InitStore /\ [][NextStore]_vars

(***************************************************************************)
(* C20: when operations on different alarms have all completed             *)
(* successfully, the Store holds the record each of them wrote, whether    *)
(* they ran one after the other or at the same time.                       *)
(***************************************************************************)
C20_NoLostWrite ==
    (/\ calc.phase = "store"
     /\ \A i \in DOMAIN Calls : Calls[i].pc = "done")
    => \A i \in DOMAIN Calls :
          /\ Calls[i].id \in DOMAIN store
          /\ store[Calls[i].id] = Calls[i].alarm

(***************************************************************************)
(* SpecFault: the lifecycle with the Notifier's schedule call and the      *)
(* Store's write failing or not in create, edit, toggle and delete, each   *)
(* handler run to its return or to its throw                               *)
(***************************************************************************)
\* how a handler ended, as the op of the history record
Outcome(kind, scheduleThrew, storeThrew) ==
    IF scheduleThrew
    THEN CASE kind = "create" -> "createScheduleFailed"
           [] kind = "edit"   -> "editScheduleFailed"
           [] kind = "toggle" -> "toggleScheduleFailed"
    ELSE IF storeThrew
    THEN CASE kind = "create" -> "createStoreFailed"
           [] kind = "edit"   -> "editStoreFailed"
           [] kind = "toggle" -> "toggleStoreFailed"
           [] kind = "delete" -> "deleteStoreFailed"
    ELSE kind

\* addAlarm: schedule (if enabled), StorageService.addAlarm, setAlarms; a throw
\* of either call ends the handler where it stands
addAlarmFault(alarmInput, notifierFails, storeFails) ==
    LET id        == nextAlarm
        token     == nextToken
        newAlarm  == StoredAlarm(alarmInput, token)
        schedThrew == alarmInput.isEnabled /\ scheduleAlarmThrows(newAlarm, notifierFails)
        armed     == alarmInput.isEnabled /\ ~schedThrew
        written   == ~schedThrew /\ ~storeFails
    IN  /\ nextAlarm <= MaxAlarms
        /\ armed => nextToken <= MaxTokens
        /\ scheduled' = IF armed THEN scheduleAlarm(scheduled, token, id, newAlarm, now)
                        ELSE scheduled
        /\ nextToken' = IF armed THEN nextToken + 1 ELSE nextToken
        /\ store'     = IF written THEN StorageAddAlarm(store, id, newAlarm) ELSE store
        /\ alarms'    = IF written
                        THEN [i \in DOMAIN alarms \cup {id} |->
                                 IF i = id THEN newAlarm ELSE alarms[i]]
                        ELSE alarms
        /\ nextAlarm' = nextAlarm + 1
        /\ last'      = LastOp(Outcome("create", schedThrew, ~schedThrew /\ storeFails),
                               id, NoId, IF armed THEN token ELSE NoId, 0, 0)
        /\ UNCHANGED <<now, presented, calc>>

\* updateAlarm: cancel, schedule (if enabled), StorageService.updateAlarm,
\* setAlarms; a throw of either call ends the handler where it stands
updateAlarmFault(kind, id, updates, notifierFails, storeFails) ==
    /\ id \in DOMAIN alarms
    /\ LET existingAlarm == alarms[id]
           token         == nextToken
           merged        == Spread(existingAlarm, updates)
           arm           == needsReschedule(updates) /\ merged.isEnabled
           schedThrew    == arm /\ scheduleAlarmThrows(merged, notifierFails)
           armed         == arm /\ ~schedThrew
           storeThrew    == ~schedThrew /\ (storeFails \/ id \notin DOMAIN store)
           written       == ~schedThrew /\ ~storeThrew
           updatedAlarm  ==
               IF needsReschedule(updates)
               THEN [merged EXCEPT !.notificationId = IF arm THEN token ELSE NoId]
               ELSE merged
           cancelled     ==
               IF needsReschedule(updates)
               THEN cancelAlarm(scheduled, existingAlarm.notificationId)
               ELSE scheduled
       IN  /\ armed => token <= MaxTokens
           /\ scheduled' = IF armed
                           THEN scheduleAlarm(cancelled, token, id, updatedAlarm, now)
                           ELSE cancelled
           /\ nextToken' = IF armed THEN token + 1 ELSE token
           /\ store'     = IF written THEN StorageUpdateAlarm(store, id, updatedAlarm)
                           ELSE store
           /\ alarms'    = IF written
                           THEN [a \in DOMAIN alarms |->
                                    IF a = id THEN updatedAlarm ELSE alarms[a]]
                           ELSE alarms
           /\ last'      = LastOp(Outcome(kind, schedThrew, storeThrew), id,
                                  existingAlarm.notificationId,
                                  IF armed THEN token ELSE NoId, 0, 0)
    /\ UNCHANGED <<now, presented, nextAlarm, calc>>

\* deleteAlarm: cancel, StorageService.deleteAlarm, setAlarms
deleteAlarmFault(id, storeFails) ==
    /\ id \in DOMAIN alarms
    /\ scheduled' = cancelAlarm(scheduled, alarms[id].notificationId)
    /\ store'     = IF storeFails THEN store ELSE StorageDeleteAlarm(store, id)
    /\ alarms'    = IF storeFails THEN alarms
                    ELSE [a \in DOMAIN alarms \ {id} |-> alarms[a]]
    /\ last'      = LastOp(Outcome("delete", FALSE, storeFails), id,
                           alarms[id].notificationId, NoId, 0, 0)
    /\ UNCHANGED <<now, presented, nextToken, nextAlarm, calc>>

CreateFault ==
    \E alarmInput \in AlarmInputs : \E notifierFails, storeFails \in BOOLEAN :
        addAlarmFault(alarmInput, notifierFails, storeFails)

EditFault ==
    \E id \in DOMAIN alarms : \E alarmData \in AlarmInputs :
        \E notifierFails, storeFails \in BOOLEAN :
            updateAlarmFault("edit", id, alarmData, notifierFails, storeFails)

ToggleFault ==
    \E id \in DOMAIN alarms : \E notifierFails, storeFails \in BOOLEAN :
        updateAlarmFault("toggle", id, [isEnabled |-> ~alarms[id].isEnabled],
                         notifierFails, storeFails)

DeleteFault ==
    \E id \in DOMAIN alarms : \E storeFails \in BOOLEAN : deleteAlarmFault(id, storeFails)

NextFault == CreateFault \/ EditFault \/ ToggleFault \/ DeleteFault \/ Fire \/ Advance

SpecFault == Init /\ [][NextFault]_vars

(***************************************************************************)
(* C21: when the Notifier's schedule call fails in an edit or an enable,   *)
(* the alarm is left with no live registration and its record holds no     *)
(* token.                                                                  *)
(***************************************************************************)
C21_FailedScheduleDisarms ==
    (/\ last.op \in {Outcome("edit", TRUE, FALSE), Outcome("toggle", TRUE, FALSE)}
     /\ Exists(last.id))
    => /\ Live(last.id) = {}
       /\ alarms[last.id].notificationId = NoId

(***************************************************************************)
(* SpecCancel: an alarm whose record holds a token that is live, or was    *)
(* delivered and shown, or is no longer known to the Notifier, next to a   *)
(* second alarm that is armed; then toggles, edits, deletes and dismissals *)
(***************************************************************************)
InitCancel ==
    \E alarmInput \in {a \in AlarmInputs : a.isEnabled} :
        \E tokenIs \in {"live", "shown", "unknown"} :
            LET created == At(1, 8, 0, 0)
                first   == StoredAlarm(alarmInput, 1)
                armed   == scheduleAlarm({}, 1, 1, first, created)
                second  == StoredAlarm(CHOOSE a \in AlarmInputs : a.repeats # {}, 2)
                t       == IF tokenIs = "live" THEN created
                           ELSE calculateNextTrigger(first, created)
            IN  /\ now = t
                /\ alarms = [i \in {1, 2} |-> IF i = 1 THEN first ELSE second]
                /\ store = alarms
                /\ scheduled = (IF tokenIs = "live" THEN armed ELSE {})
                                   \cup scheduleAlarm({}, 2, 2, second, t)
                /\ presented = IF tokenIs = "shown" THEN armed ELSE {}
                /\ nextToken = 3
                /\ nextAlarm = 3
                /\ last = [NoOp EXCEPT !.op = "create", !.id = 2, !.new = 2]
                /\ calc = Idle

NextCancel == Toggle \/ Edit \/ Delete \/ Dismiss

SpecCancel == InitCancel /\ [][NextCancel]_vars

SchedulingFields(alarm) ==
    [time           |-> alarm.time,
     repeats        |-> alarm.repeats,
     isEnabled      |-> alarm.isEnabled,
     notificationId |-> alarm.notificationId]

C23_StoreMirrorsMemory ==
    /\ DOMAIN store = DOMAIN alarms
    /\ \A id \in DOMAIN alarms :
           SchedulingFields(store[id]) = SchedulingFields(alarms[id])

\* a snooze or a dismiss has just written a new token to an existing record
C23_Witness ==
    /\ last.op \in {"snooze", "dismiss"}
    /\ last.new # NoId
    /\ last.new # last.old
    /\ Exists(last.id)
    /\ store[last.id].notificationId = last.new

(***************************************************************************)
(* SpecLive: SchedulerService.rescheduleAllAlarms over alarms whose        *)
(* registrations are still live                                            *)
(***************************************************************************)
\* the collection while the application runs: every enabled record with a
\* time in range holds the token of its live registration
InitLive ==
    \E n \in 0..MaxList : \E inputs \in [1..n -> ListInputs] : \E fails \in SUBSET (1..n) :
        LET list  == [i \in 1..n |-> StoredAlarm(inputs[i], i)]
            armed == {i \in 1..n : /\ list[i].isEnabled
                                   /\ parseTimeString(list[i].time) # Invalid}
        IN  /\ now = At(1, 8, 0, 0)
            /\ alarms = list
            /\ store = alarms
            /\ scheduled = UNION {scheduleAlarm({}, i, i, list[i], now) : i \in armed}
            /\ presented = {}
            /\ nextToken = n + 1
            /\ nextAlarm = n + 1
            /\ last = NoOp
            /\ calc = [phase |-> "input", fails |-> fails]

SpecLive == InitLive /\ [][NextAll]_vars

(***************************************************************************)
(* C24: after rescheduleAllAlarms has run over alarms that already hold a  *)
(* live registration, every enabled alarm has exactly one live             *)
(* registration.                                                           *)
(***************************************************************************)
C24_RescheduleAllOneLive ==
    calc.phase = "done" =>
        \A i \in DOMAIN alarms :
            (alarms[i].isEnabled /\ parseTimeString(alarms[i].time) # Invalid)
                => Cardinality(Live(i)) = 1

(***************************************************************************)
(* SpecMissing: edit, toggle and delete called with any alarm id, also one *)
(* that was never created or is already deleted                            *)
(***************************************************************************)
AlarmIds == 1..(MaxAlarms + 2)

\* a lookup that falls back to the alarms it has when the id is not there
alarmsFind_Fallback(list, id) ==
    IF id \in DOMAIN list THEN {id} ELSE DOMAIN list

\* alarms.find(a => a.id === id): the matching alarms, none when not found
alarmsFind(list, id) == {a \in DOMAIN list : a = id}

\* throw new Error('Alarm not found'): the catch block sets the error message
\* and rethrows
AlarmNotFound(op, id) ==
    /\ last' = LastOp(op, id, NoId, NoId, 0, 0)
    /\ UNCHANGED <<now, alarms, store, scheduled, presented, nextToken, nextAlarm, calc>>

updateAlarmOrThrow(id, alarmData) ==
    IF alarmsFind(alarms, id) = {}
    THEN AlarmNotFound("editNotFound", id)
    ELSE \E a \in alarmsFind(alarms, id) : editAlarm(a, alarmData)

toggleAlarmOrThrow(id) ==
    IF alarmsFind(alarms, id) = {}
    THEN AlarmNotFound("toggleNotFound", id)
    ELSE \E a \in alarmsFind(alarms, id) : toggleAlarm(a)

deleteAlarmOrThrow(id) ==
    IF alarmsFind(alarms, id) = {}
    THEN AlarmNotFound("deleteNotFound", id)
    ELSE \E a \in alarmsFind(alarms, id) : deleteAlarm(a)

EditAny   == \E id \in AlarmIds : \E alarmData \in AlarmInputs : updateAlarmOrThrow(id, alarmData)
ToggleAny == \E id \in AlarmIds : toggleAlarmOrThrow(id)
DeleteAny == \E id \in AlarmIds : deleteAlarmOrThrow(id)

NextMissing == Create \/ EditAny \/ ToggleAny \/ DeleteAny

SpecMissing == Init /\ [][NextMissing]_vars

(***************************************************************************)
(* C25: an edit, a toggle or a delete naming an alarm id that does not     *)
(* exist ends with alarm-not-found and changes nothing: no registration is *)
(* made or cancelled, the Store is not written and every record stays as   *)
(* it was.                                                                 *)
(***************************************************************************)
C25_NotFoundNoEffect ==
    [][\A id \in AlarmIds :
          (/\ id \notin DOMAIN alarms
           /\ \/ toggleAlarmOrThrow(id)
              \/ deleteAlarmOrThrow(id)
              \/ \E alarmData \in AlarmInputs : updateAlarmOrThrow(id, alarmData))
          => /\ last'.op \in {"editNotFound", "toggleNotFound", "deleteNotFound"}
             /\ last'.id = id
             /\ UNCHANGED <<alarms, store, scheduled, presented, nextToken>>]_vars

\* a handler was called for an alarm that is not there while another alarm
\* was armed
C25_Witness ==
    /\ last.op \in {"editNotFound", "toggleNotFound", "deleteNotFound"}
    /\ last.id \notin DOMAIN alarms
    /\ \E id \in DOMAIN alarms : Live(id) # {}

(***************************************************************************)
(* SpecMachine: one alarm, found in any state of its lifecycle, is taken   *)
(* to a chosen state by toggles, edits, deliveries and snoozes             *)
(***************************************************************************)
InDisabled(id) == ~alarms[id].isEnabled /\ Live(id) = {}

InArmed(id) ==
    /\ alarms[id].isEnabled
    /\ \E r \in Live(id) : ~r.isSnoozed /\ r.identifier = alarms[id].notificationId

InSnoozed(id) ==
    \E r \in Live(id) : r.isSnoozed /\ r.identifier = alarms[id].notificationId

AtGoal(id) ==
    CASE calc.goal = "Disabled" -> InDisabled(id)
      [] calc.goal = "Armed"    -> InArmed(id)
      [] calc.goal = "Snoozed"  -> InSnoozed(id)

\* the states an alarm is found in: not yet created; disabled; armed; its
\* notification shown; snoozed; its snooze notification shown; switched off
\* and then snoozed from the notification still shown.  Tokens are opaque
\* strings, so the one token a record holds is numbered 1.
InitMachine ==
    \E goal \in {"Disabled", "Armed", "Snoozed"} :
    \E found \in {"none", "disabled", "armed", "shown", "snoozed", "snoozeShown",
                  "snoozedOff"} :
    \E alarmInput \in AlarmInputs :
        LET created == At(1, 8, 0, 0)
            enabled == found \notin {"none", "disabled", "snoozedOff"}
            holds   == found \notin {"none", "disabled"}
            alarm   == [StoredAlarm([alarmInput EXCEPT !.isEnabled = enabled], 1)
                           EXCEPT !.notificationId = IF holds THEN 1 ELSE NoId]
            trigger == calculateNextTrigger(alarm, created)
            regular == scheduleAlarm({}, 1, 1, alarm, created)
            snooze  == scheduleSnooze({}, 1, 1, alarm.snoozeDuration, trigger)
            resumed == CHOOSE r \in snooze : TRUE
        IN  /\ holds => alarmInput.isEnabled
            /\ found = "none" => alarmInput.isEnabled
            /\ now = CASE found \in {"none", "disabled", "armed"} -> created
                       [] found \in {"shown", "snoozed", "snoozedOff"} -> trigger
                       [] found = "snoozeShown"                   -> resumed.triggerDate
            /\ alarms = IF found = "none" THEN << >> ELSE <<alarm>>
            /\ store = alarms
            /\ scheduled = CASE found = "armed"                     -> regular
                             [] found \in {"snoozed", "snoozedOff"} -> snooze
                             [] OTHER                               -> {}
            /\ presented = CASE found = "shown"       -> regular
                             [] found = "snoozeShown" -> snooze
                             [] OTHER                 -> {}
            /\ nextToken = IF holds THEN 2 ELSE 1
            /\ nextAlarm = IF found = "none" THEN 1 ELSE 2
            /\ last = NoOp
            /\ calc = [goal |-> goal, found |-> found]

CreateFirst == alarms = << >> /\ Create

\* to Disabled: toggle the enabled alarm, or save the edit screen with the
\* alarm switched off
DriveDisabled ==
    \E id \in DOMAIN alarms :
        /\ calc.goal = "Disabled"
        /\ ~InDisabled(id)
        /\ \/ alarms[id].isEnabled /\ toggleAlarm(id)
           \/ \E alarmData \in AlarmInputs :
                  ~alarmData.isEnabled /\ editAlarm(id, alarmData)

\* to Armed: toggle the disabled alarm, or save the edit screen with the
\* alarm switched on
DriveArmed ==
    \E id \in DOMAIN alarms :
        /\ calc.goal = "Armed"
        /\ ~InArmed(id)
        /\ \/ ~alarms[id].isEnabled /\ toggleAlarm(id)
           \/ \E alarmData \in AlarmInputs :
                  alarmData.isEnabled /\ editAlarm(id, alarmData)

\* to Snoozed: snooze the notification shown; else wait for the trigger and
\* let the Notifier deliver; else save the edit screen with snooze allowed
DriveSnoozed ==
    \E id \in DOMAIN alarms :
        /\ calc.goal = "Snoozed"
        /\ ~InSnoozed(id)
        /\ IF alarms[id].snoozeEnabled /\ \E n \in presented : n.alarmId = id
           THEN \E n \in presented : n.alarmId = id /\ respondSnooze(n)
           ELSE IF alarms[id].snoozeEnabled /\ InArmed(id)
           THEN \E r \in Live(id) :
                    IF ~handleNotification(r, now)
                    THEN \E t \in {r.triggerDate - TOLERANCE_SECONDS, r.triggerDate} :
                             advance(t)
                    ELSE fire(r, TRUE)
           ELSE \E alarmData \in AlarmInputs :
                    /\ alarmData.isEnabled
                    /\ alarmData.snoozeEnabled
                    /\ editAlarm(id, alarmData)

NextMachine == CreateFirst \/ DriveDisabled \/ DriveArmed \/ DriveSnoozed

SpecMachine == InitMachine /\ [][NextMachine]_vars /\ WF_vars(NextMachine)

(***************************************************************************)
(* C26: an alarm created enabled starts Armed and one created disabled     *)
(* starts Disabled; and from every state of an existing alarm each of      *)
(* Disabled, Armed and Snoozed is reached by toggles, edits, deliveries    *)
(* and snoozes: no state is terminal.                                      *)
(***************************************************************************)
C26_NoTerminalState ==
    /\ [](\A id \in DOMAIN alarms :
              (last.op = "create" /\ last.id = id) =>
                  IF alarms[id].isEnabled THEN InArmed(id) ELSE InDisabled(id))
    /\ Exists(1) ~> (Exists(1) /\ AtGoal(1))

\* a disabled alarm was taken to Snoozed: enabled, delivered, snoozed
C26_Witness ==
    /\ calc.goal = "Snoozed"
    /\ Exists(1)
    /\ InSnoozed(1)
    /\ last.op = "snooze"
    /\ nextToken = 3
    /\ alarms[1].time.hours = 9

(***************************************************************************)
(* SpecFields: updateAlarm called with updates that name only the snooze   *)
(* policy, next to creates, toggles and deletes                            *)
(***************************************************************************)
\* Partial<Alarm> values naming none of time, repeats, isEnabled, soundUri
FieldUpdates ==
    {[snoozeEnabled |-> b] : b \in BOOLEAN}
        \cup {[snoozeDuration |-> d] : d \in {1, 10}}
        \cup {[snoozeEnabled |-> b, snoozeDuration |-> d] : b \in BOOLEAN, d \in {1, 10}}

updateFields(id, updates) ==
    /\ id \in DOMAIN alarms
    /\ updateAlarm(id, updates, scheduled, nextToken)
    /\ last' = LastOp("editFields", id, alarms[id].notificationId,
                      IF nextToken' > nextToken THEN nextToken ELSE NoId, 0, 0)
    /\ UNCHANGED <<now, presented, nextAlarm, calc>>

EditFields == \E id \in DOMAIN alarms : \E updates \in FieldUpdates : updateFields(id, updates)

NextFields == Create \/ Toggle \/ Delete \/ EditFields

SpecFields == Init /\ [][NextFields]_vars

(***************************************************************************)
(* C27: an edit that names none of time, repeats, isEnabled and soundUri   *)
(* makes no Notifier call: the registrations and the recorded token stay   *)
(* as they were, and of the record only the named fields change.           *)
(***************************************************************************)
C27_EditOtherFields ==
    [][\A id \in DOMAIN alarms : \A updates \in FieldUpdates :
          (last'.op = "editFields" /\ updateFields(id, updates))
          => /\ scheduled' = scheduled
             /\ nextToken' = nextToken
             /\ alarms'[id].notificationId = alarms[id].notificationId
             /\ \A f \in DOMAIN alarms[id] :
                    alarms'[id][f] = IF f \in DOMAIN updates
                                     THEN updates[f] ELSE alarms[id][f]
             /\ store'[id] = alarms'[id]]_vars

\* the snooze policy of an armed alarm was edited
C27_Witness ==
    /\ last.op = "editFields"
    /\ Exists(last.id)
    /\ \E r \in Live(last.id) : r.identifier = alarms[last.id].notificationId
    /\ ~alarms[last.id].snoozeEnabled

(***************************************************************************)
(* SpecPolicy: alarms created, switched on and off, delivered and snoozed, *)
(* some of them with snooze not allowed                                    *)
(***************************************************************************)
NextPolicy == Create \/ Toggle \/ Fire \/ Snooze \/ Advance

SpecPolicy == Init /\ [][NextPolicy]_vars

(***************************************************************************)
(* C28: a snooze action on an alarm whose snoozeEnabled is false is        *)
(* ignored: no registration is cancelled or made, and the record and the   *)
(* Store stay as they were.                                                *)
(***************************************************************************)
C28_SnoozeNotAllowed ==
    [][\A n \in presented :
          (/\ last'.op = "snooze"
           /\ n.alarmId \in DOMAIN alarms
           /\ ~alarms[n.alarmId].snoozeEnabled
           /\ respondSnooze(n))
          => UNCHANGED <<scheduled, alarms, store, nextToken>>]_vars

\* the snooze button was pressed for an alarm that does not allow snooze and
\* has since been armed again: its registration is still live
C28_Witness ==
    /\ last.op = "snooze"
    /\ Exists(last.id)
    /\ ~alarms[last.id].snoozeEnabled
    /\ last.new = NoId
    /\ \E r \in Live(last.id) : r.identifier = alarms[last.id].notificationId

(***************************************************************************)
(* C29: whatever Notifier and Store calls fail, every live registration    *)
(* names an existing alarm whose record holds that registration's token:   *)
(* no registration is orphaned or untracked.                               *)
(***************************************************************************)
C29_NoOrphanRegistration ==
    \A r \in scheduled :
        /\ r.alarmId \in DOMAIN alarms
        /\ alarms[r.alarmId].notificationId = r.identifier

(***************************************************************************)
(* C30: saving the edit screen for an enabled alarm that is Snoozed, with  *)
(* the alarm left enabled, cancels the pending snooze registration and     *)
(* leaves one regular registration at the next trigger of the new time and *)
(* repeats, whose token the record holds: the alarm is Armed.              *)
(***************************************************************************)
C30_EditWhileSnoozed ==
    [][\A id \in DOMAIN alarms : \A alarmData \in AlarmInputs :
          (/\ last'.op = "edit"
           /\ InSnoozed(id)
           /\ alarms[id].isEnabled
           /\ alarmData.isEnabled
           /\ editAlarm(id, alarmData))
          => /\ {r \in scheduled' : r.alarmId = id} =
                    {[triggerDate |-> getNextAlarmTime(alarmData.time, alarmData.repeats, now),
                      identifier  |-> nextToken,
                      alarmId     |-> id,
                      isSnoozed   |-> FALSE]}
             /\ alarms[id].notificationId \notin Tokens(scheduled')
             /\ alarms'[id].notificationId = nextToken
             /\ alarms'[id].isEnabled]_vars

\* the alarm found snoozed was edited and is armed
C30_Witness ==
    /\ calc.found = "snoozed"
    /\ last.op = "edit"
    /\ last.old = 1
    /\ last.new = 2
    /\ Exists(1)
    /\ InArmed(1)

====
